---- MODULE Spec2Model ----
(***************************************************************************)
(* Word-guess engine of streamlit_app.py: evaluate_guess,                  *)
(* update_key_statuses and the round state kept in st.session_state under  *)
(* the wordle:: keys, with the handlers that mutate it.                    *)
(*                                                                         *)
(* A Python str is modelled as a sequence of one-character strings, a list *)
(* as a sequence, a dict as a function whose DOMAIN is its key set.        *)
(***************************************************************************)
EXTENDS Integers, Sequences, FiniteSets, TLC

WORD_LENGTH == 5
MAX_GUESSES == 6

SOLUTION_WORDS ==
    << <<"C","R","A","N","E">>, <<"S","L","A","T","E">>,
       <<"T","R","A","C","E">>, <<"R","O","A","S","T">>,
       <<"S","H","A","R","E">>, <<"P","O","I","N","T">>,
       <<"M","I","G","H","T">>, <<"S","O","U","N","D">>,
       <<"H","E","A","R","T">>, <<"W","A","T","E","R">>,
       <<"S","M","I","L","E">>, <<"B","R","I","C","K">>,
       <<"P","L","A","N","T">>, <<"G","R","A","C","E">>,
       <<"C","H","O","I","R">>, <<"G","H","O","S","T">>,
       <<"C","L","O","U","D">>, <<"N","U","R","S","E">>,
       <<"W","O","R","L","D">>, <<"S","T","O","R","Y">>,
       <<"H","O","U","S","E">>, <<"L","I","G","H","T">>,
       <<"N","I","G","H","T">>, <<"P","A","R","T","Y">>,
       <<"G","R","E","E","N">>, <<"B","L","A","C","K">>,
       <<"W","H","I","T","E">>, <<"B","R","O","W","N">>,
       <<"L","E","M","O","N">>, <<"B","E","R","R","Y">>,
       <<"F","A","I","T","H">>, <<"M","O","V","I","E">>,
       <<"M","O","N","E","Y">>, <<"P","I","Z","Z","A">>,
       <<"C","A","N","D","Y">>, <<"S","U","G","A","R">>,
       <<"S","W","E","E","T">>, <<"S","A","L","A","D">>,
       <<"B","R","E","A","D">>, <<"P","A","S","T","A">> >>

VALID_GUESSES == { SOLUTION_WORDS[i] : i \in DOMAIN SOLUTION_WORDS }

(* PRIORITY dict *)
PRIORITY == [ s \in {"correct", "present", "absent", "unused"} |->
                CASE s = "correct" -> 3
                  [] s = "present" -> 2
                  [] s = "absent"  -> 1
                  [] OTHER         -> 0 ]

(***************************************************************************)
(* str methods used by the handlers                                        *)
(***************************************************************************)
UpperLetters == <<"A","B","C","D","E","F","G","H","I","J","K","L","M","N","O","P","Q","R","S","T","U","V","W","X","Y","Z">>
LowerLetters == <<"a","b","c","d","e","f","g","h","i","j","k","l","m","n","o","p","q","r","s","t","u","v","w","x","y","z">>

Range(s) == { s[i] : i \in DOMAIN s }

(* the characters str.isalpha() accepts, and the tables of str.upper() and *)
(* str.lower() on single characters                                        *)
AlphaChars == Range(UpperLetters) \cup Range(LowerLetters)

UpperOf ==
    [ c \in Range(LowerLetters) |->
        UpperLetters[CHOOSE i \in DOMAIN LowerLetters : LowerLetters[i] = c] ]

LowerOf ==
    [ c \in Range(UpperLetters) |->
        LowerLetters[CHOOSE i \in DOMAIN UpperLetters : UpperLetters[i] = c] ]

(* one-character str.isalpha() *)
IsAlphaChar(c) == c \in AlphaChars

(* one-character str.upper() / str.lower() *)
UpperChar(c) == IF c \in DOMAIN UpperOf THEN UpperOf[c] ELSE c

LowerChar(c) == IF c \in DOMAIN LowerOf THEN LowerOf[c] ELSE c

Upper(s) == [ i \in DOMAIN s |-> UpperChar(s[i]) ]
Lower(s) == [ i \in DOMAIN s |-> LowerChar(s[i]) ]

(* str.isalpha(): non-empty and every character alphabetic *)
IsAlpha(s) == Len(s) > 0 /\ \A i \in DOMAIN s : IsAlphaChar(s[i])

IsSpace(c) == c = " "

(* str.strip() *)
RECURSIVE LStrip(_)
LStrip(s) == IF s # << >> /\ IsSpace(Head(s)) THEN LStrip(Tail(s)) ELSE s

RECURSIVE RStrip(_)
RStrip(s) ==
    IF s # << >> /\ IsSpace(s[Len(s)]) THEN RStrip(SubSeq(s, 1, Len(s) - 1)) ELSE s

Strip(s) == RStrip(LStrip(s))

(* s[:n] *)
Prefix(s, n) == SubSeq(s, 1, IF Len(s) < n THEN Len(s) ELSE n)

(***************************************************************************)
(* evaluate_guess.  A consumed answer character is None.  Indexing past    *)
(* the end of guess or answer_chars raises IndexError, reported as         *)
(* raised = TRUE with no row.                                              *)
(***************************************************************************)
None == "None"

IndexError == [ raised |-> TRUE, row |-> << >> ]

Returned(r) == [ raised |-> FALSE, row |-> r ]

(* list.index(x): position of the first element equal to x *)
IndexOf(chars, x) ==
    CHOOSE j \in DOMAIN chars : chars[j] = x /\ \A k \in 1..(j - 1) : chars[k] # x

(* Greens whose loop stops one position early *)
RECURSIVE Greens_StopsEarly(_, _, _, _)
Greens_StopsEarly(i, guess, result, answer_chars) ==
    IF i > WORD_LENGTH - 1
    THEN [ raised |-> (Len(guess) < WORD_LENGTH \/ Len(answer_chars) < WORD_LENGTH),
           result |-> result, answer_chars |-> answer_chars ]
    ELSE IF i > Len(guess) \/ i > Len(answer_chars)
    THEN [ raised |-> TRUE, result |-> result, answer_chars |-> answer_chars ]
    ELSE IF guess[i] = answer_chars[i]
    THEN Greens_StopsEarly(i + 1, guess, [ result EXCEPT ![i] = "correct" ],
                           [ answer_chars EXCEPT ![i] = None ])
    ELSE Greens_StopsEarly(i + 1, guess, result, answer_chars)

(* Greens that leaves the matched answer character in answer_chars *)
RECURSIVE Greens_KeepsChar(_, _, _, _)
Greens_KeepsChar(i, guess, result, answer_chars) ==
    IF i > WORD_LENGTH
    THEN [ raised |-> FALSE, result |-> result, answer_chars |-> answer_chars ]
    ELSE IF i > Len(guess) \/ i > Len(answer_chars)
    THEN [ raised |-> TRUE, result |-> result, answer_chars |-> answer_chars ]
    ELSE IF guess[i] = answer_chars[i]
    THEN Greens_KeepsChar(i + 1, guess, [ result EXCEPT ![i] = "correct" ], answer_chars)
    ELSE Greens_KeepsChar(i + 1, guess, result, answer_chars)

(* the "Greens" loop from position i on; yields the pair (result, answer_chars) *)
RECURSIVE Greens(_, _, _, _)
Greens(i, guess, result, answer_chars) ==
    IF i > WORD_LENGTH
    THEN [ raised |-> FALSE, result |-> result, answer_chars |-> answer_chars ]
    ELSE IF i > Len(guess) \/ i > Len(answer_chars)
    THEN [ raised |-> TRUE, result |-> result, answer_chars |-> answer_chars ]
    ELSE IF guess[i] = answer_chars[i]
    THEN Greens(i + 1, guess, [ result EXCEPT ![i] = "correct" ],
                [ answer_chars EXCEPT ![i] = None ])
    ELSE Greens(i + 1, guess, result, answer_chars)

(* Yellows that scans the guess from its last position to its first *)
RECURSIVE Yellows_RightToLeft(_, _, _, _)
Yellows_RightToLeft(i, guess, result, answer_chars) ==
    LET p == WORD_LENGTH + 1 - i
    IN  IF i > WORD_LENGTH
        THEN result
        ELSE IF result[p] = "correct"
        THEN Yellows_RightToLeft(i + 1, guess, result, answer_chars)
        ELSE IF guess[p] \in Range(answer_chars)
        THEN Yellows_RightToLeft(i + 1, guess, [ result EXCEPT ![p] = "present" ],
                     [ answer_chars EXCEPT ![IndexOf(answer_chars, guess[p])] = None ])
        ELSE Yellows_RightToLeft(i + 1, guess, result, answer_chars)

(* Yellows that does not consume the answer character it matched *)
RECURSIVE Yellows_NoConsume(_, _, _, _)
Yellows_NoConsume(i, guess, result, answer_chars) ==
    IF i > WORD_LENGTH
    THEN result
    ELSE IF result[i] = "correct"
    THEN Yellows_NoConsume(i + 1, guess, result, answer_chars)
    ELSE IF guess[i] \in Range(answer_chars)
    THEN Yellows_NoConsume(i + 1, guess, [ result EXCEPT ![i] = "present" ], answer_chars)
    ELSE Yellows_NoConsume(i + 1, guess, result, answer_chars)

(* the "Yellows" loop from position i on; yields result *)
RECURSIVE Yellows(_, _, _, _)
Yellows(i, guess, result, answer_chars) ==
    IF i > WORD_LENGTH
    THEN result
    ELSE IF result[i] = "correct"
    THEN Yellows(i + 1, guess, result, answer_chars)
    ELSE IF guess[i] \in Range(answer_chars)
    THEN Yellows(i + 1, guess, [ result EXCEPT ![i] = "present" ],
                 [ answer_chars EXCEPT ![IndexOf(answer_chars, guess[i])] = None ])
    ELSE Yellows(i + 1, guess, result, answer_chars)

(* evaluate_guess that refuses arguments of different lengths *)
evaluate_guess_Validating(guess, answer) ==
    LET g == Upper(guess)
        a == Upper(answer)
        greens == Greens(1, g, [ i \in 1..WORD_LENGTH |-> "absent" ], a)
    IN  IF greens.raised \/ Len(guess) # Len(answer)
        THEN IndexError
        ELSE Returned(Yellows(1, g, greens.result, greens.answer_chars))

evaluate_guess(guess, answer) ==
    LET g == Upper(guess)
        a == Upper(answer)
        greens == Greens(1, g, [ i \in 1..WORD_LENGTH |-> "absent" ], a)
    IN  IF greens.raised
        THEN IndexError
        ELSE Returned(Yellows(1, g, greens.result, greens.answer_chars))

(***************************************************************************)
(* update_key_statuses                                                     *)
(***************************************************************************)
EmptyDict == [ k \in {} |-> "unused" ]

(* dict.get(k, "unused") *)
Get(d, k) == IF k \in DOMAIN d THEN d[k] ELSE "unused"

(* d[k] = v *)
Put(d, k, v) == [ x \in DOMAIN d \cup {k} |-> IF x = k THEN v ELSE d[x] ]

(* the loop storing every status, whatever was recorded before *)
RECURSIVE FoldStatuses_Overwrite(_, _, _, _)
FoldStatuses_Overwrite(i, new, guess, statuses) ==
    IF i > Len(guess) \/ i > Len(statuses)
    THEN new
    ELSE FoldStatuses_Overwrite(i + 1, Put(new, guess[i], statuses[i]), guess, statuses)

(* the zip(guess, statuses) loop from position i on *)
RECURSIVE FoldStatuses(_, _, _, _)
FoldStatuses(i, new, guess, statuses) ==
    IF i > Len(guess) \/ i > Len(statuses)
    THEN new
    ELSE LET ch   == guess[i]
             stt  == statuses[i]
             prev == Get(new, ch)
         IN  IF PRIORITY[stt] > PRIORITY[prev]
             THEN FoldStatuses(i + 1, Put(new, ch, stt), guess, statuses)
             ELSE FoldStatuses(i + 1, new, guess, statuses)

update_key_statuses(key_status_, guess, statuses) ==
    FoldStatuses(1, key_status_, guess, statuses)

(***************************************************************************)
(* is_english_word.  zipf_frequency comes from the optional wordfreq       *)
(* package; ZipfWords stands for the lower-case words it rates >= 2.0.     *)
(***************************************************************************)
ERROR == <<"E","R","R","O","R">>

ZipfWords == { Lower(w) : w \in VALID_GUESSES \cup {ERROR} }

is_english_word(guess, wordfreq) ==
    LET g == Lower(guess)
    IN  IF ~IsAlpha(g) \/ Len(g) # WORD_LENGTH
        THEN FALSE
        ELSE IF wordfreq
        THEN g \in ZipfWords
        ELSE Upper(g) \in VALID_GUESSES

(***************************************************************************)
(* Bounds and input sets                                                   *)
(***************************************************************************)
(* cap of the kb_reset_nonce counter: reset_wordle is not taken once it is *)
(* reached                                                                 *)
MaxResets == 1

(* cap of the text_rev counter: a handler that increments it is not taken  *)
(* once it is reached                                                      *)
MaxTextRev == 7

(* letters the 5-letter evaluate_guess inputs are built from, and how far  *)
(* the lengths of the other inputs are from WORD_LENGTH                    *)
NumLetters == 2
LenSlack == 1

(* indices into SOLUTION_WORDS an answer is drawn from: GREEN, BERRY *)
AnswerIdx == {25, 30}

(* keys handed to wordle_handle_keypress; "<" stands for the one-character *)
(* backspace key of KEY_ROWS                                               *)
ENTER == <<"E","N","T","E","R">>
BACKSPACE == <<"<">>
KeyInputs == { ENTER, BACKSPACE, <<"E">>, <<"e">>, <<"1">>, <<"E","E">> }

(* texts the player leaves in the "Type a guess" field (max_chars = 5) *)
TypedTexts ==
    { <<"g","r","e","e","n">>, <<"b","e","r","r","y">>, <<"g","3">>, <<" ","g","r","e">> }

(* messages stored under wordle::error *)
NoError == ""
NotEnoughLetters == "Not enough letters."
OnlyLetters == "Only letters A-Z."
NotEnglish == "Not a valid English word."
InstallWordfreq == "Install wordfreq to validate English words (pip install wordfreq)."

(***************************************************************************)
(* State: the wordle:: entries of st.session_state, WORDFREQ_AVAILABLE,    *)
(* and one call frame of evaluate_guess for the function on its own.       *)
(* kb_last_nonce and kb_reset_nonce are session entries too; kb_value is   *)
(* the text of the hidden bridge widget; kbd_reset_nonce and kbd_disabled  *)
(* are the values written into the keyboard's script when it was last      *)
(* rendered; run_pc and run_event are the position of the page script and  *)
(* the widget event it is running for.  op, before, pressed, kb_calls and   *)
(* kb_round record history: the last operation, the outcome before it, the *)
(* key last handed to wordle_handle_keypress, how often the payload now in *)
(* kb_value was handed on, and the kb_reset_nonce when it was sent.        *)
(***************************************************************************)
VARIABLES answer, guesses, feedback, current, key_status, game_over, won,
          text_rev, error, strict, WORDFREQ_AVAILABLE,
          eg_pc, eg_guess, eg_answer, eg_out,
          kb_last_nonce, kb_reset_nonce, kb_value,
          kbd_reset_nonce, kbd_disabled, run_pc, run_event,
          op, before, pressed, kb_calls, kb_round

round == <<answer, guesses, feedback, current, key_status, game_over, won>>
session == <<answer, guesses, feedback, current, key_status, game_over, won,
             text_rev, error, strict, WORDFREQ_AVAILABLE>>
frame == <<eg_pc, eg_guess, eg_answer, eg_out>>
nonces == <<kb_last_nonce, kb_reset_nonce>>
page == <<kb_value, kbd_reset_nonce, kbd_disabled, run_pc, run_event, kb_round>>
vars == <<answer, guesses, feedback, current, key_status, game_over, won,
          text_rev, error, strict, WORDFREQ_AVAILABLE,
          eg_pc, eg_guess, eg_answer, eg_out,
          kb_last_nonce, kb_reset_nonce, kb_value,
          kbd_reset_nonce, kbd_disabled, run_pc, run_event,
          op, before, pressed, kb_calls, kb_round>>

(* op names the operation that produced the state and before the round's   *)
(* outcome when that operation was called; pressed is the key last handed  *)
(* to wordle_handle_keypress and kb_calls the number of times              *)
(* consume_keyboard_bridge has handed on the payload kb_value holds; none  *)
(* of them is read by an operation                                         *)
Outcome == IF won THEN "Won" ELSE IF game_over THEN "Lost" ELSE "InProgress"

(* stable_daily_index(seed, n): the index the hash of today's date gives;  *)
(* any of the n indices, depending on the day                              *)
stable_daily_index(n) == 1..n

DailyAnswers ==
    { SOLUTION_WORDS[i] : i \in stable_daily_index(Len(SOLUTION_WORDS)) \cap AnswerIdx }

(* random.choice(SOLUTION_WORDS) *)
RandomAnswers == { SOLUTION_WORDS[i] : i \in DOMAIN SOLUTION_WORDS \cap AnswerIdx }

NoFrame ==
    /\ eg_pc = "idle"
    /\ eg_guess = << >>
    /\ eg_answer = << >>
    /\ eg_out = Returned(<< >>)

(* init_wordle_state on a fresh session *)
init_wordle_state ==
    /\ answer \in DailyAnswers
    /\ guesses = << >>
    /\ feedback = << >>
    /\ current = << >>
    /\ key_status = EmptyDict
    /\ game_over = FALSE
    /\ won = FALSE
    /\ text_rev = 0
    /\ error = NoError
    /\ strict = TRUE
    /\ kb_last_nonce = ""
    /\ kb_reset_nonce = 0

(* no widget event pending *)
NoEvent == [ kind |-> "none", typed |-> << >> ]

(* the page before its first run: the bridge widget empty, no keyboard     *)
(* rendered yet                                                            *)
NoPage ==
    /\ kb_value = << >>
    /\ kbd_reset_nonce = 0
    /\ kbd_disabled = TRUE
    /\ run_pc = "idle"
    /\ run_event = NoEvent
    /\ pressed = << >>
    /\ kb_calls = 0
    /\ kb_round = 0

Init ==
    /\ init_wordle_state
    /\ WORDFREQ_AVAILABLE \in BOOLEAN
    /\ NoFrame
    /\ NoPage
    /\ op = "init"
    /\ before = "InProgress"

(* reset_wordle that leaves the key statuses of the old round *)
reset_wordle_KeepsKeys(random_word) ==
    /\ text_rev < MaxTextRev
    /\ kb_reset_nonce < MaxResets
    /\ answer' \in (IF random_word THEN RandomAnswers ELSE DailyAnswers)
    /\ guesses' = << >>
    /\ feedback' = << >>
    /\ current' = << >>
    /\ game_over' = FALSE
    /\ won' = FALSE
    /\ error' = NoError
    /\ text_rev' = text_rev + 1
    /\ kb_last_nonce' = ""
    /\ kb_reset_nonce' = kb_reset_nonce + 1
    /\ UNCHANGED <<key_status, strict, WORDFREQ_AVAILABLE>>

(* reset_wordle(random_word) *)
reset_wordle(random_word) ==
    /\ text_rev < MaxTextRev
    /\ kb_reset_nonce < MaxResets
    /\ answer' \in (IF random_word THEN RandomAnswers ELSE DailyAnswers)
    /\ guesses' = << >>
    /\ feedback' = << >>
    /\ current' = << >>
    /\ key_status' = EmptyDict
    /\ game_over' = FALSE
    /\ won' = FALSE
    /\ error' = NoError
    /\ text_rev' = text_rev + 1
    /\ kb_last_nonce' = ""
    /\ kb_reset_nonce' = kb_reset_nonce + 1
    /\ UNCHANGED <<strict, WORDFREQ_AVAILABLE>>

(* the message of a rejected wordle_commit_guess, NoError when accepted *)
Rejection(guess) ==
    IF Len(guess) # WORD_LENGTH THEN NotEnoughLetters
    ELSE IF ~IsAlpha(guess) THEN OnlyLetters
    ELSE IF strict /\ ~is_english_word(guess, WORDFREQ_AVAILABLE)
    THEN (IF WORDFREQ_AVAILABLE THEN NotEnglish ELSE InstallWordfreq)
    ELSE NoError

(* a validation failure of wordle_commit_guess: the message is stored and  *)
(* the handler returns; this variant also empties the input                *)
RejectGuess_ClearsInput(message) ==
    /\ error' = message
    /\ current' = << >>
    /\ UNCHANGED <<answer, guesses, feedback, key_status,
                   game_over, won, text_rev, strict, WORDFREQ_AVAILABLE>>

(* a validation failure of wordle_commit_guess: the message is stored and  *)
(* the handler returns                                                     *)
RejectGuess(message) ==
    /\ error' = message
    /\ UNCHANGED <<answer, guesses, feedback, current, key_status,
                   game_over, won, text_rev, strict, WORDFREQ_AVAILABLE>>

(* the outcome test with the attempts counted before the guess is compared *)
DecideOutcome_LossFirst(guess) ==
    IF Len(guesses') >= MAX_GUESSES
    THEN game_over' = TRUE /\ won' = FALSE
    ELSE IF guess = answer
    THEN game_over' = TRUE /\ won' = TRUE
    ELSE UNCHANGED <<game_over, won>>

(* the outcome test with > in place of >= *)
DecideOutcome_OffByOne(guess) ==
    IF guess = answer
    THEN game_over' = TRUE /\ won' = TRUE
    ELSE IF Len(guesses') > MAX_GUESSES
    THEN game_over' = TRUE /\ won' = FALSE
    ELSE UNCHANGED <<game_over, won>>

(* the outcome test that ends wordle_commit_guess, after the append *)
DecideOutcome(guess) ==
    IF guess = answer
    THEN game_over' = TRUE /\ won' = TRUE
    ELSE IF Len(guesses') >= MAX_GUESSES
    THEN game_over' = TRUE /\ won' = FALSE
    ELSE UNCHANGED <<game_over, won>>

(* wordle_commit_guess() *)
wordle_commit_guess ==
    IF game_over
    THEN UNCHANGED session
    ELSE LET guess == Strip(Upper(current))
             message == Rejection(guess)
         IN  IF message # NoError
             THEN RejectGuess(message)
             ELSE LET statuses == evaluate_guess(guess, answer).row
                  IN  /\ text_rev < MaxTextRev
                      /\ error' = NoError
                      /\ guesses' = Append(guesses, guess)
                      /\ feedback' = Append(feedback, statuses)
                      /\ key_status' = update_key_statuses(key_status, guess, statuses)
                      /\ current' = << >>
                      /\ text_rev' = text_rev + 1
                      /\ DecideOutcome(guess)
                      /\ UNCHANGED <<answer, strict, WORDFREQ_AVAILABLE>>

(* wordle_handle_keypress that appends the key as it was pressed *)
wordle_handle_keypress_NoUpper(key) ==
    IF game_over
    THEN UNCHANGED session
    ELSE IF key = ENTER
    THEN wordle_commit_guess
    ELSE IF key = BACKSPACE
    THEN /\ text_rev < MaxTextRev
         /\ current' = SubSeq(current, 1, Len(current) - 1)
         /\ text_rev' = text_rev + 1
         /\ UNCHANGED <<answer, guesses, feedback, key_status, game_over, won,
                        error, strict, WORDFREQ_AVAILABLE>>
    ELSE IF Len(key) = 1 /\ IsAlpha(key) /\ Len(current) < WORD_LENGTH
    THEN /\ text_rev < MaxTextRev
         /\ current' = current \o key
         /\ text_rev' = text_rev + 1
         /\ UNCHANGED <<answer, guesses, feedback, key_status, game_over, won,
                        error, strict, WORDFREQ_AVAILABLE>>
    ELSE UNCHANGED session

(* wordle_handle_keypress without the game_over test *)
wordle_handle_keypress_NoGuard(key) ==
    IF key = ENTER
    THEN wordle_commit_guess
    ELSE IF key = BACKSPACE
    THEN /\ text_rev < MaxTextRev
         /\ current' = SubSeq(current, 1, Len(current) - 1)
         /\ text_rev' = text_rev + 1
         /\ UNCHANGED <<answer, guesses, feedback, key_status, game_over, won,
                        error, strict, WORDFREQ_AVAILABLE>>
    ELSE IF Len(key) = 1 /\ IsAlpha(key) /\ Len(current) < WORD_LENGTH
    THEN /\ text_rev < MaxTextRev
         /\ current' = current \o Upper(key)
         /\ text_rev' = text_rev + 1
         /\ UNCHANGED <<answer, guesses, feedback, key_status, game_over, won,
                        error, strict, WORDFREQ_AVAILABLE>>
    ELSE UNCHANGED session

(* wordle_handle_keypress(key) *)
wordle_handle_keypress(key) ==
    IF game_over
    THEN UNCHANGED session
    ELSE IF key = ENTER
    THEN wordle_commit_guess
    ELSE IF key = BACKSPACE
    THEN /\ text_rev < MaxTextRev
         /\ current' = SubSeq(current, 1, Len(current) - 1)
         /\ text_rev' = text_rev + 1
         /\ UNCHANGED <<answer, guesses, feedback, key_status, game_over, won,
                        error, strict, WORDFREQ_AVAILABLE>>
    ELSE IF Len(key) = 1 /\ IsAlpha(key) /\ Len(current) < WORD_LENGTH
    THEN /\ text_rev < MaxTextRev
         /\ current' = current \o Upper(key)
         /\ text_rev' = text_rev + 1
         /\ UNCHANGED <<answer, guesses, feedback, key_status, game_over, won,
                        error, strict, WORDFREQ_AVAILABLE>>
    ELSE UNCHANGED session

(***************************************************************************)
(* Operations of a round                                                   *)
(***************************************************************************)
KeyPress ==
    /\ \E key \in KeyInputs :
          /\ wordle_handle_keypress(key)
          /\ op' = (IF key = ENTER THEN "submit"
                    ELSE IF key = BACKSPACE THEN "backspace"
                    ELSE "appendLetter")
    /\ before' = Outcome
    /\ UNCHANGED <<frame, nonces, page, pressed, kb_calls>>

Submit ==
    /\ wordle_commit_guess
    /\ op' = "submit"
    /\ before' = Outcome
    /\ UNCHANGED <<frame, nonces, page, pressed, kb_calls>>

(* the "Clear" button, disabled once game_over *)
Clear ==
    /\ ~game_over
    /\ text_rev < MaxTextRev
    /\ current' = << >>
    /\ error' = NoError
    /\ text_rev' = text_rev + 1
    /\ op' = "clear"
    /\ before' = Outcome
    /\ UNCHANGED <<answer, guesses, feedback, key_status, game_over, won,
                   strict, WORDFREQ_AVAILABLE>>
    /\ UNCHANGED <<frame, nonces, page, pressed, kb_calls>>

(* the "Type a guess" field, disabled once game_over *)
TypeText ==
    /\ ~game_over
    /\ \E typed \in TypedTexts :
          LET typed_up == Prefix(Upper(typed), WORD_LENGTH)
          IN  IF typed_up # current
              THEN current' = typed_up /\ error' = NoError
              ELSE UNCHANGED <<current, error>>
    /\ op' = "type"
    /\ before' = Outcome
    /\ UNCHANGED <<answer, guesses, feedback, key_status, game_over, won,
                   text_rev, strict, WORDFREQ_AVAILABLE>>
    /\ UNCHANGED <<frame, nonces, page, pressed, kb_calls>>

(* the "New" button *)
Reset ==
    /\ \E random_word \in BOOLEAN : reset_wordle(random_word)
    /\ op' = "reset"
    /\ before' = Outcome
    /\ UNCHANGED <<frame, page, pressed, kb_calls>>

(* the "English words only" toggle *)
ToggleStrict ==
    /\ strict' = ~strict
    /\ op' = "toggle"
    /\ before' = Outcome
    /\ UNCHANGED <<answer, guesses, feedback, current, key_status, game_over, won,
                   text_rev, error, WORDFREQ_AVAILABLE>>
    /\ UNCHANGED <<frame, nonces, page, pressed, kb_calls>>

Next ==
    \/ KeyPress
    \/ Submit
    \/ Clear
    \/ TypeText
    \/ Reset
    \/ ToggleStrict

Spec == Init /\ [][Next]_vars

(***************************************************************************)
(* The round driven by wordle_handle_keypress, wordle_commit_guess, the    *)
(* "Clear" button and reset_wordle alone: the "Type a guess" field is left *)
(* untouched.  KeyStrokes are the keys handed to wordle_handle_keypress.   *)
(***************************************************************************)
KeyStrokes ==
    { ENTER, BACKSPACE, <<"g">>, <<"R">>, <<"E">>, <<"N">>, <<"1">>, <<"E","E">> }

KeyStroke ==
    /\ \E key \in KeyStrokes :
          /\ wordle_handle_keypress(key)
          /\ pressed' = key
          /\ op' = (IF key = ENTER THEN "submit"
                    ELSE IF key = BACKSPACE THEN "backspace"
                    ELSE "appendLetter")
    /\ before' = Outcome
    /\ UNCHANGED <<frame, nonces, page, kb_calls>>

NextKeys ==
    \/ KeyStroke
    \/ Submit
    \/ Clear
    \/ Reset

(* a fresh session whose daily word is GREEN *)
InitKeys ==
    /\ Init
    /\ answer = SOLUTION_WORDS[25]
    /\ ~WORDFREQ_AVAILABLE

SpecKeys == InitKeys /\ [][NextKeys]_vars

(***************************************************************************)
(* The keyboard bridge.  The text of the hidden widget is kept as the list *)
(* of its "|"-separated pieces: << >> for the empty widget, and            *)
(* <<key, nonce, reset nonce>> for a payload written by sendKey.           *)
(***************************************************************************)
Digits == <<"0","1","2","3","4","5","6","7","8","9">>

(* String(reset_nonce) of a one-digit number *)
FormatInt(n) == Digits[n + 1]

(* int(rnonce_str): the number, or the ValueError *)
ParseInt(str) ==
    IF str \in Range(Digits)
    THEN [ ok |-> TRUE, value |-> (CHOOSE i \in DOMAIN Digits : Digits[i] = str) - 1 ]
    ELSE [ ok |-> FALSE, value |-> 0 ]

(* consume_keyboard_bridge returning before the payload is handed on *)
IgnorePayload == UNCHANGED <<session, kb_last_nonce, pressed, kb_calls>>

(* kb_calls after one more call; it counts up to 2, "more than once" *)
Counted == IF kb_calls < 2 THEN kb_calls + 1 ELSE kb_calls

(* the last two lines of consume_keyboard_bridge *)
ApplyPayload(key, nonce) ==
    /\ kb_last_nonce' = nonce
    /\ wordle_handle_keypress(key)
    /\ pressed' = key
    /\ kb_calls' = Counted

(* consume_keyboard_bridge without the comparison of the reset nonces *)
consume_keyboard_bridge_NoResetCheck ==
    LET raw == kb_value
    IN  IF Len(raw) < 3
        THEN IgnorePayload
        ELSE LET key == raw[1]
                 nonce == raw[2]
                 rnonce == ParseInt(raw[3])
             IN  IF ~rnonce.ok
                 THEN IgnorePayload
                 ELSE IF nonce = kb_last_nonce
                 THEN IgnorePayload
                 ELSE ApplyPayload(key, nonce)

(* consume_keyboard_bridge that does not store the nonce it handled *)
consume_keyboard_bridge_NoStore ==
    LET raw == kb_value
    IN  IF Len(raw) < 3
        THEN IgnorePayload
        ELSE LET key == raw[1]
                 nonce == raw[2]
                 rnonce == ParseInt(raw[3])
             IN  IF ~rnonce.ok
                 THEN IgnorePayload
                 ELSE IF rnonce.value # kb_reset_nonce
                 THEN IgnorePayload
                 ELSE IF nonce = kb_last_nonce
                 THEN IgnorePayload
                 ELSE /\ wordle_handle_keypress(key)
                      /\ pressed' = key
                      /\ kb_calls' = Counted
                      /\ UNCHANGED kb_last_nonce

(* consume_keyboard_bridge() *)
consume_keyboard_bridge ==
    LET raw == kb_value
    IN  IF Len(raw) < 3
        THEN IgnorePayload
        ELSE LET key == raw[1]
                 nonce == raw[2]
                 rnonce == ParseInt(raw[3])
             IN  IF ~rnonce.ok
                 THEN IgnorePayload
                 ELSE IF rnonce.value # kb_reset_nonce
                 THEN IgnorePayload
                 ELSE IF nonce = kb_last_nonce
                 THEN IgnorePayload
                 ELSE ApplyPayload(key, nonce)

(* keys of KEY_ROWS pressed on the HTML keyboard, the nonces sendKey draws, *)
(* the texts typed into the field, and the text_rev up to which the page   *)
(* takes widget events                                                     *)
MaxBridgeRev == 4
BridgeKeys == { <<"E">>, ENTER, BACKSPACE }
Nonces == { "n1", "n2" }
BridgeTexts == { <<"g","r","e","e","n">>, <<"b","e","r","r","y">> }
Buttons == { "New", "Enter", "Backspace", "Clear", "Other" }

Idle == run_pc = "idle" /\ text_rev < MaxBridgeRev

(* st.rerun(), and a widget event: the page script starts over *)
StartRun(event) ==
    /\ run_pc' = "consume"
    /\ run_event' = event

(* the script reaches render_colored_keyboard_html and ends *)
RenderKeyboard ==
    /\ kbd_reset_nonce' = kb_reset_nonce'
    /\ kbd_disabled' = game_over'
    /\ run_pc' = "idle"
    /\ run_event' = NoEvent

(* sendKey(k) of the rendered keyboard, and the click on the hidden button *)
SendKey ==
    /\ Idle
    /\ ~kbd_disabled
    /\ \E k \in BridgeKeys, nonce \in Nonces :
          LET payload == <<k, nonce, FormatInt(kbd_reset_nonce)>>
          IN  /\ kb_value' = payload
              /\ kb_calls' = (IF payload = kb_value THEN kb_calls ELSE 0)
    /\ kb_round' = kb_reset_nonce
    /\ StartRun(NoEvent)
    /\ op' = "sendKey"
    /\ before' = Outcome
    /\ UNCHANGED <<session, nonces, frame, kbd_reset_nonce, kbd_disabled, pressed>>

(* a click on "New", "Enter", "Backspace", "Clear" (the last three disabled *)
(* once game_over) or on a widget without a handler                        *)
Click ==
    /\ Idle
    /\ \E b \in Buttons :
          /\ b \in {"Enter", "Backspace", "Clear"} => ~game_over
          /\ StartRun([ kind |-> b, typed |-> << >> ])
    /\ op' = "click"
    /\ before' = Outcome
    /\ UNCHANGED <<session, nonces, frame, kb_value, kb_round, kbd_reset_nonce,
                   kbd_disabled, pressed, kb_calls>>

(* an edit of the "Type a guess" field, disabled once game_over *)
TextEdit ==
    /\ Idle
    /\ ~game_over
    /\ \E typed \in BridgeTexts : StartRun([ kind |-> "type", typed |-> typed ])
    /\ op' = "edit"
    /\ before' = Outcome
    /\ UNCHANGED <<session, nonces, frame, kb_value, kb_round, kbd_reset_nonce,
                   kbd_disabled, pressed, kb_calls>>

(* the script run up to and including consume_keyboard_bridge() *)
Consume ==
    /\ run_pc = "consume"
    /\ consume_keyboard_bridge
    /\ run_pc' = "body"
    /\ op' = "consume"
    /\ before' = Outcome
    /\ UNCHANGED <<kb_reset_nonce, frame, kb_value, kb_round, kbd_reset_nonce,
                   kbd_disabled, run_event>>

(* the rest of the script when "New" was clicked *)
BodyNew ==
    /\ run_pc = "body" /\ run_event.kind = "New"
    /\ \E random_word \in BOOLEAN : reset_wordle(random_word)
    /\ StartRun(NoEvent)
    /\ op' = "reset"
    /\ before' = Outcome
    /\ UNCHANGED <<frame, kb_value, kb_round, kbd_reset_nonce, kbd_disabled,
                   pressed, kb_calls>>

(* the rest of the script when "Enter" was clicked *)
BodyEnter ==
    /\ run_pc = "body" /\ run_event.kind = "Enter"
    /\ wordle_commit_guess
    /\ StartRun(NoEvent)
    /\ op' = "submit"
    /\ before' = Outcome
    /\ UNCHANGED <<nonces, frame, kb_value, kb_round, kbd_reset_nonce, kbd_disabled,
                   pressed, kb_calls>>

(* the rest of the script when "Backspace" was clicked *)
BodyBackspace ==
    /\ run_pc = "body" /\ run_event.kind = "Backspace"
    /\ wordle_handle_keypress(BACKSPACE)
    /\ StartRun(NoEvent)
    /\ op' = "backspace"
    /\ before' = Outcome
    /\ UNCHANGED <<nonces, frame, kb_value, kb_round, kbd_reset_nonce, kbd_disabled,
                   pressed, kb_calls>>

(* the rest of the script when "Clear" was clicked *)
BodyClear ==
    /\ run_pc = "body" /\ run_event.kind = "Clear"
    /\ text_rev < MaxTextRev
    /\ current' = << >>
    /\ error' = NoError
    /\ text_rev' = text_rev + 1
    /\ StartRun(NoEvent)
    /\ op' = "clear"
    /\ before' = Outcome
    /\ UNCHANGED <<answer, guesses, feedback, key_status, game_over, won,
                   strict, WORDFREQ_AVAILABLE>>
    /\ UNCHANGED <<nonces, frame, kb_value, kb_round, kbd_reset_nonce, kbd_disabled,
                   pressed, kb_calls>>

(* the rest of the script when the "Type a guess" field was edited *)
BodyType ==
    /\ run_pc = "body" /\ run_event.kind = "type"
    /\ LET typed_up == Prefix(Upper(run_event.typed), WORD_LENGTH)
       IN  IF typed_up # current
           THEN current' = typed_up /\ error' = NoError
           ELSE UNCHANGED <<current, error>>
    /\ UNCHANGED <<answer, guesses, feedback, key_status, game_over, won,
                   text_rev, strict, WORDFREQ_AVAILABLE>>
    /\ UNCHANGED nonces
    /\ RenderKeyboard
    /\ op' = "type"
    /\ before' = Outcome
    /\ UNCHANGED <<frame, kb_value, kb_round, pressed, kb_calls>>

(* the rest of the script when no handler runs *)
BodyRender ==
    /\ run_pc = "body" /\ run_event.kind \in {"none", "Other"}
    /\ UNCHANGED <<session, nonces>>
    /\ RenderKeyboard
    /\ op' = "render"
    /\ before' = Outcome
    /\ UNCHANGED <<frame, kb_value, kb_round, pressed, kb_calls>>

NextBridge ==
    \/ SendKey
    \/ Click
    \/ TextEdit
    \/ Consume
    \/ BodyNew
    \/ BodyEnter
    \/ BodyBackspace
    \/ BodyClear
    \/ BodyType
    \/ BodyRender

(* the first run of the page in a fresh session whose daily word is GREEN *)
InitBridge ==
    /\ init_wordle_state
    /\ answer = SOLUTION_WORDS[25]
    /\ WORDFREQ_AVAILABLE = FALSE
    /\ NoFrame
    /\ kb_value = << >>
    /\ kbd_reset_nonce = 0
    /\ kbd_disabled = TRUE
    /\ run_pc = "consume"
    /\ run_event = NoEvent
    /\ pressed = << >>
    /\ kb_calls = 0
    /\ kb_round = 0
    /\ op = "init"
    /\ before = "InProgress"

SpecBridge == InitBridge /\ [][NextBridge]_vars

(***************************************************************************)
(* evaluate_guess on its own: one call with arguments drawn from           *)
(* EvalInputs                                                              *)
(***************************************************************************)
BERRY == SOLUTION_WORDS[30]
CRANE == SOLUTION_WORDS[1]
GREEN == SOLUTION_WORDS[25]

EvalLetterList == <<"E", "R", "B", "Y", "O">>
EvalLetters == { EvalLetterList[i] : i \in 1..NumLetters }

Words(n) == [ 1..n -> EvalLetters ]

NamedInputs ==
    { BERRY, ERROR, CRANE, GREEN, <<"R","A","N","C","E">>, <<"b","e","r","r","y">> }

(* w cut short and w drawn out, by up to LenSlack characters *)
LengthVariants(w) ==
    { SubSeq(w, 1, Len(w) - k) : k \in 1..LenSlack }
        \cup { w \o SubSeq(w, 1, k) : k \in 1..LenSlack }

EvalInputs ==
    Words(WORD_LENGTH) \cup NamedInputs
        \cup UNION { LengthVariants(w) : w \in NamedInputs } \cup { << >> }

InitEval ==
    /\ answer = GREEN
    /\ init_wordle_state
    /\ WORDFREQ_AVAILABLE = FALSE
    /\ NoPage
    /\ op = "init"
    /\ before = "InProgress"
    /\ eg_pc = "call"
    /\ eg_guess \in EvalInputs
    /\ eg_answer \in EvalInputs
    /\ eg_out = Returned(<< >>)

Evaluate ==
    /\ eg_pc = "call"
    /\ eg_out' = evaluate_guess(eg_guess, eg_answer)
    /\ eg_pc' = "return"
    /\ UNCHANGED <<eg_guess, eg_answer, op, before>>
    /\ UNCHANGED <<nonces, page, pressed, kb_calls>>
    /\ UNCHANGED session

NextEval == Evaluate

SpecEval == InitEval /\ [][NextEval]_vars

(***************************************************************************)
(* Properties of evaluate_guess (checked under SpecEval)                   *)
(***************************************************************************)
Count(x, s) == Cardinality({ i \in DOMAIN s : s[i] = x })

IsUpperWord(s) == Len(s) = WORD_LENGTH /\ \A i \in DOMAIN s : s[i] \in Range(UpperLetters)

Hits(guess, row, L) ==
    { i \in DOMAIN row : guess[i] = L /\ row[i] \in {"correct", "present"} }

AllCorrect == [ i \in 1..WORD_LENGTH |-> "correct" ]

(* C1: for 5-letter uppercase guess and answer and every letter L, the     *)
(* positions of the guess holding L that are judged correct or present are *)
(* no more than the occurrences of L in the answer.                        *)
C1_HitsBoundedByAnswer ==
    (eg_pc = "return" /\ IsUpperWord(eg_guess) /\ IsUpperWord(eg_answer)) =>
        /\ ~eg_out.raised
        /\ Len(eg_out.row) = WORD_LENGTH
        /\ \A L \in Range(eg_guess) :
              Cardinality(Hits(eg_guess, eg_out.row, L)) <= Count(L, eg_answer)

(* a guess repeating a letter more often than the answer holds it, some    *)
(* occurrences hit and the surplus judged absent *)
C1_Witness ==
    /\ eg_pc = "return" /\ IsUpperWord(eg_guess) /\ IsUpperWord(eg_answer)
    /\ \E L \in Range(eg_guess) :
          /\ Count(L, eg_guess) > Count(L, eg_answer)
          /\ Count(L, eg_answer) > 0
          /\ Cardinality(Hits(eg_guess, eg_out.row, L)) = Count(L, eg_answer)
          /\ \E i \in DOMAIN eg_guess : eg_guess[i] = L /\ eg_out.row[i] = "absent"

(* C8 as stated: evaluate fails whenever the two lengths differ.           *)
C8_RaisesOnAnyMismatch ==
    (eg_pc = "return" /\ Len(eg_guess) # Len(eg_answer)) => eg_out.raised

(* C8 amended: evaluate fails exactly when guess or answer has fewer than  *)
(* WORD_LENGTH characters; when both have at least WORD_LENGTH characters  *)
(* it returns a row of WORD_LENGTH verdicts, also for different lengths.   *)
C8_RaisesIffTooShort ==
    eg_pc = "return" =>
        /\ eg_out.raised <=> (Len(eg_guess) < WORD_LENGTH \/ Len(eg_answer) < WORD_LENGTH)
        /\ ~eg_out.raised => Len(eg_out.row) = WORD_LENGTH

(* lengths differ, neither is short, and a row came back *)
C8_Witness ==
    /\ eg_pc = "return"
    /\ Len(eg_guess) # Len(eg_answer)
    /\ Len(eg_guess) >= WORD_LENGTH /\ Len(eg_answer) >= WORD_LENGTH
    /\ ~eg_out.raised
    /\ Len(eg_out.row) = WORD_LENGTH

(* C9: evaluate("ERROR", "BERRY") is                                       *)
(* [present, present, correct, absent, absent].                            *)
C9_ErrorAgainstBerry ==
    (eg_pc = "return" /\ eg_guess = ERROR /\ eg_answer = BERRY) =>
        eg_out = Returned(<<"present", "present", "correct", "absent", "absent">>)

C9_Witness ==
    /\ eg_pc = "return" /\ eg_guess = ERROR /\ eg_answer = BERRY
    /\ ~eg_out.raised
    /\ eg_out.row[5] = "absent"

(* C10: evaluate(answer, answer) is correct at every position, for every   *)
(* 5-letter uppercase answer.                                              *)
C10_SelfIsAllCorrect ==
    (eg_pc = "return" /\ IsUpperWord(eg_answer) /\ eg_guess = eg_answer) =>
        eg_out = Returned(AllCorrect)

C10_Witness ==
    /\ eg_pc = "return" /\ IsUpperWord(eg_answer) /\ eg_guess = eg_answer
    /\ Cardinality(Range(eg_answer)) > 1
    /\ eg_out.row = AllCorrect

(***************************************************************************)
(* Properties of the round (checked under Spec)                            *)
(***************************************************************************)
Terminal == game_over

(* the round as reset leaves it *)
FreshRound ==
    /\ ~game_over
    /\ ~won
    /\ guesses = << >>
    /\ feedback = << >>
    /\ key_status = EmptyDict
    /\ current = << >>
    /\ error = NoError

(* the conditions under which the specification has submit rejected *)
SubmitRejected ==
    \/ Terminal
    \/ Len(current) # WORD_LENGTH
    \/ ~IsAlpha(current)
    \/ (strict /\ ~is_english_word(current, WORDFREQ_AVAILABLE))

(* C2: on a finished round appendLetter, backspace and submit change none  *)
(* of answer, history, verdict rows, key status, current input and         *)
(* outcome, and only reset makes the round unfinished again.               *)
C2_TerminalIsFrozen ==
    [][ /\ (Terminal /\ op' \in {"appendLetter", "backspace", "submit"})
            => UNCHANGED <<answer, guesses, feedback, key_status, current, game_over, won>>
        /\ (Terminal /\ ~Terminal') => op' = "reset" ]_vars

(* a letter key was pressed on a round that was already won *)
C2_Witness ==
    /\ Terminal /\ won
    /\ before = "Won"
    /\ op = "appendLetter"

(* C3: a submit that is rejected leaves history, verdict rows, key status, *)
(* current input and the terminal flag as they were; rejected by           *)
(* validation on an unfinished round, it sets an error message.            *)
C3_RejectedSubmitKeepsState ==
    [][ (op' = "submit" /\ SubmitRejected)
            => /\ UNCHANGED <<guesses, feedback, key_status, current, game_over, won>>
               /\ ~Terminal => error' # NoError ]_vars

(* a word was refused by the dictionary with guesses already on the board *)
C3_Witness ==
    /\ op = "submit"
    /\ error \in {NotEnglish, InstallWordfreq}
    /\ Len(guesses) > 0
    /\ Len(current) = WORD_LENGTH

(* C4: an accepted submit appends (guess, evaluate_guess(guess, answer)),  *)
(* folds it into the key status and empties the input; the round is then   *)
(* Won if the guess is the answer, else Lost if MAX_GUESSES guesses are    *)
(* on the board, else in progress.  Always won implies game_over, and      *)
(* game_over without won implies MAX_GUESSES guesses, none the answer.     *)
C4_AcceptedSubmit ==
    /\ [](won => game_over)
    /\ []((game_over /\ ~won) =>
            /\ Len(guesses) = MAX_GUESSES
            /\ \A i \in DOMAIN guesses : guesses[i] # answer)
    /\ [][ (op' = "submit" /\ ~SubmitRejected) =>
            LET row == evaluate_guess(current, answer).row
            IN  /\ guesses' = Append(guesses, current)
                /\ feedback' = Append(feedback, row)
                /\ key_status' = update_key_statuses(key_status, current, row)
                /\ current' = << >>
                /\ IF current = answer
                   THEN game_over' /\ won'
                   ELSE IF Len(guesses) + 1 = MAX_GUESSES
                   THEN game_over' /\ ~won'
                   ELSE ~game_over' /\ ~won' ]_vars

(* the answer given as the sixth guess *)
C4_Witness ==
    /\ op = "submit"
    /\ before = "InProgress"
    /\ won /\ game_over
    /\ Len(guesses) = MAX_GUESSES

(* the ranks the specification gives the statuses *)
Rank(status) ==
    CASE status = "correct" -> 3
      [] status = "present" -> 2
      [] status = "absent"  -> 1
      [] OTHER              -> 0

(* C5: within a round the rank of the status recorded for a letter never   *)
(* decreases.                                                              *)
C5_KeyStatusMonotonic ==
    [][ op' # "reset" =>
          \A L \in DOMAIN key_status :
             Rank(Get(key_status', L)) >= Rank(key_status[L]) ]_vars

(* a letter recorded correct, and the latest guess holds it without a      *)
(* single correct verdict *)
C5_Witness ==
    /\ Len(guesses) >= 2
    /\ \E L \in DOMAIN key_status :
          /\ key_status[L] = "correct"
          /\ \E i \in 1..WORD_LENGTH : guesses[Len(guesses)][i] = L
          /\ \A i \in 1..WORD_LENGTH :
                guesses[Len(guesses)][i] = L => feedback[Len(feedback)][i] # "correct"

(* C6: the history never holds more than MAX_GUESSES guesses, is as long   *)
(* as the list of verdict rows, and gains nothing once game_over is set.   *)
C6_HistoryBounded ==
    /\ [](Len(guesses) <= MAX_GUESSES /\ Len(guesses) = Len(feedback))
    /\ [][ (Terminal /\ op' # "reset")
             => (guesses' = guesses /\ feedback' = feedback) ]_vars

(* a submit on a lost round with a full board *)
C6_Witness ==
    /\ op = "submit"
    /\ before = "Lost"
    /\ Len(guesses) = MAX_GUESSES
    /\ Len(feedback) = MAX_GUESSES

(* C7: reset yields an unfinished round with empty history, verdict rows,  *)
(* key status and input and no error message.                              *)
C7_ResetIsFresh ==
    op = "reset" => FreshRound

(* reset of a lost round *)
C7_Witness ==
    /\ op = "reset"
    /\ before = "Lost"
    /\ FreshRound

(***************************************************************************)
(* Properties of the round driven by keys (checked under SpecKeys)         *)
(***************************************************************************)
IsSingleLetter(key) == Len(key) = 1 /\ IsAlphaChar(key[1])

(* C11: appendLetter(ch) changes nothing when the round is finished, the   *)
(* input already holds WORD_LENGTH characters or ch is not one alphabetic  *)
(* character; otherwise it appends ch in upper case.  The input never      *)
(* holds more than WORD_LENGTH characters nor anything but upper-case      *)
(* letters.                                                                *)
C11_AppendLetter ==
    /\ [](/\ Len(current) <= WORD_LENGTH
          /\ \A i \in DOMAIN current : current[i] \in Range(UpperLetters))
    /\ [][ op' = "appendLetter" =>
            IF Terminal \/ Len(current) >= WORD_LENGTH \/ ~IsSingleLetter(pressed')
            THEN UNCHANGED <<answer, guesses, feedback, key_status, current,
                             game_over, won, error>>
            ELSE /\ current' = Append(current, UpperChar(pressed'[1]))
                 /\ UNCHANGED <<answer, guesses, feedback, key_status,
                                game_over, won, error>> ]_vars

(* a lower-case key pressed on an input one short of full *)
C11_Witness ==
    /\ op = "appendLetter"
    /\ pressed = <<"g">>
    /\ before = "InProgress"
    /\ Len(current) = WORD_LENGTH
    /\ current[WORD_LENGTH] = "G"
    /\ text_rev = WORD_LENGTH

Min(m, n) == IF m <= n THEN m ELSE n

(* one pass of the "Yellows" loop body at position i from the pair st of   *)
(* result and answer_chars, with any position of answer_chars holding the  *)
(* letter set to None in place of the one answer_chars.index finds *)
YellowStep(i, guess, st) ==
    IF st.result[i] = "correct" \/ guess[i] \notin Range(st.answer_chars)
    THEN { st }
    ELSE { [ result |-> [ st.result EXCEPT ![i] = "present" ],
             answer_chars |-> [ st.answer_chars EXCEPT ![j] = None ] ] :
           j \in { k \in DOMAIN st.answer_chars : st.answer_chars[k] = guess[i] } }

(* the rows the "Yellows" loop can end with from position i on, started    *)
(* from any pair in frontier *)
RECURSIVE YellowRows(_, _, _)
YellowRows(i, guess, frontier) ==
    IF i > WORD_LENGTH
    THEN { st.result : st \in frontier }
    ELSE YellowRows(i + 1, guess, UNION { YellowStep(i, guess, st) : st \in frontier })

(* C12: for guess and answer of 5 characters, compared as evaluate_guess   *)
(* compares them (in upper case): position i is 'correct' exactly when the *)
(* two words agree at i; for every letter L of the guess the positions     *)
(* holding L that are 'correct' or 'present' number min(count of L in the  *)
(* guess, count of L in the answer); of two non-exact occurrences of L the *)
(* right one is 'present' only if the left one is; and consuming any other *)
(* matching position of the answer in the second loop gives the same row.  *)
C12_RowIsMultisetMatch ==
    (eg_pc = "return" /\ Len(eg_guess) = WORD_LENGTH /\ Len(eg_answer) = WORD_LENGTH) =>
        LET g == SubSeq(Upper(eg_guess), 1, WORD_LENGTH)
            a == SubSeq(Upper(eg_answer), 1, WORD_LENGTH)
            row == eg_out.row
            greens == Greens(1, g, [ i \in 1..WORD_LENGTH |-> "absent" ], a)
        IN  /\ ~eg_out.raised
            /\ Len(row) = WORD_LENGTH
            /\ \A i \in 1..WORD_LENGTH : row[i] \in {"correct", "present", "absent"}
            /\ \A i \in 1..WORD_LENGTH : row[i] = "correct" <=> g[i] = a[i]
            /\ \A L \in Range(g) :
                  Cardinality(Hits(g, row, L)) = Min(Count(L, g), Count(L, a))
            /\ \A i, j \in 1..WORD_LENGTH :
                  (i < j /\ g[i] = g[j] /\ g[i] # a[i] /\ g[j] # a[j]
                     /\ row[j] = "present") => row[i] = "present"
            /\ YellowRows(1, g, { [ result |-> greens.result,
                                    answer_chars |-> greens.answer_chars ] }) = { row }

(* a guess with an exact match and two non-exact occurrences of one letter *)
(* the answer holds twice unmatched at other places: the left occurrence   *)
(* is present, the right one absent only when the answer runs out          *)
C12_Witness ==
    /\ eg_pc = "return" /\ IsUpperWord(eg_guess) /\ IsUpperWord(eg_answer)
    /\ ~eg_out.raised
    /\ \E k \in 1..WORD_LENGTH : eg_out.row[k] = "correct"
    /\ \E i, j \in 1..WORD_LENGTH :
          /\ i < j /\ eg_guess[i] = eg_guess[j]
          /\ eg_out.row[i] = "present" /\ eg_out.row[j] = "absent"
          /\ Count(eg_guess[i], eg_answer) >= 2

(***************************************************************************)
(* Properties of the keyboard bridge (checked under SpecBridge)            *)
(***************************************************************************)
HoldsPayload == Len(kb_value) = 3

(* the payload in the widget was sent before the last reset_wordle, or     *)
(* carries another reset nonce than the session's                          *)
StalePayload ==
    /\ HoldsPayload
    /\ (kb_round # kb_reset_nonce \/ kb_value[3] # FormatInt(kb_reset_nonce))

(* C13: consume_keyboard_bridge hands a payload to wordle_handle_keypress  *)
(* only when the payload's reset nonce is the session's kb_reset_nonce and *)
(* the payload was sent in the present round; a run of                     *)
(* consume_keyboard_bridge that finds a payload from before the last reset *)
(* leaves the round, the error, text_rev and kb_last_nonce as they were.   *)
C13_StalePayloadIgnored ==
    /\ [][ kb_calls' > kb_calls =>
             (HoldsPayload /\ kb_value[3] = FormatInt(kb_reset_nonce)
                /\ kb_round = kb_reset_nonce) ]_vars
    /\ [][ (op' = "consume" /\ StalePayload) =>
             (UNCHANGED <<round, error, text_rev, kb_last_nonce>>
                /\ kb_calls' = kb_calls) ]_vars

(* consume_keyboard_bridge has just run, in a round that already has input, *)
(* on a payload that was handed on once before the last reset, with        *)
(* kb_last_nonce still cleared by that reset                               *)
C13_Witness ==
    /\ op = "consume" /\ run_pc = "body"
    /\ HoldsPayload /\ kb_round < kb_reset_nonce
    /\ kb_calls = 1 /\ kb_last_nonce = ""
    /\ current # << >> /\ guesses = << >>

(* C14: the payload held in the widget is handed to wordle_handle_keypress *)
(* at most once; once it was handed on in the present round its nonce is   *)
(* kb_last_nonce, and every later run of consume_keyboard_bridge that      *)
(* finds it leaves the session and kb_last_nonce as they were.             *)
C14_PayloadAppliedOnce ==
    /\ [](kb_calls <= 1)
    /\ []((kb_calls = 1 /\ kb_round = kb_reset_nonce) =>
             (HoldsPayload /\ kb_value[2] = kb_last_nonce))
    /\ [][ (op' = "consume" /\ kb_calls = 1) =>
             (UNCHANGED <<session, kb_last_nonce>> /\ kb_calls' = 1) ]_vars

(* the letter E was sent and typed once; a later run, started by a widget  *)
(* without a handler, has passed consume_keyboard_bridge with the same     *)
(* payload still in the widget, and the input still holds one E            *)
C14_Witness ==
    /\ op = "consume" /\ run_pc = "body" /\ run_event.kind = "Other"
    /\ HoldsPayload /\ kb_value[1] = <<"E">> /\ kb_round = kb_reset_nonce
    /\ kb_calls = 1 /\ kb_last_nonce = kb_value[2]
    /\ pressed = <<"E">> /\ current = <<"E">> /\ text_rev = 1

====
